---- MODULE Spec2Model ----
(***************************************************************************)
(* Model of c_OutputMgr (src/src/output/OutputMgr.cpp): the per-port       *)
(* driver slots, the channel factory, the shared-buffer partitioner, the   *)
(* JSON configuration codec and the deferred save.                         *)
(*                                                                         *)
(* A JSON object is a function whose domain is its set of keys (strings).  *)
(* The build modelled is the one without ARDUINO_ARCH_ESP32: two output    *)
(* channels, the first with a UART, the second without.                    *)
(***************************************************************************)
EXTENDS Integers, Sequences, FiniteSets, TLC

(* ------------------------------ bounds --------------------------------- *)
\* sizeof (OutputBuffer), scaled down; must stay below 2^16
BufferSize == 3
\* largest channel count a settings record of the inputs asks for
MaxCount == 2
\* largest value of the "type" field in the input documents
MaxTypeField == 7

(* --------------------------- program constants ------------------------- *)
OutputType_WS2811 == 0
OutputType_GECE == 1
OutputType_Serial == 2
OutputType_Renard == 3
OutputType_DMX == 4
OutputType_Relay == 5
OutputType_Disabled == 6
OutputType_End == 7
OutputType_Start == 0
OutputChannelId_Start == 0

OutputTypeXlateMap ==
    <<"WS2811", "GECE", "Serial", "Renard", "DMX", "Relay", "Disabled">>

\* {dataPin, UartId} per output channel; UartId -1 means no serial engine
OutputChannelIdToGpioAndPort ==
    << [dataPin |-> 2, UartId |-> 1],
       [dataPin |-> 10, UartId |-> -1] >>

OutputChannelId_End == Len(OutputChannelIdToGpioAndPort)

Slots == OutputChannelId_Start .. (OutputChannelId_End - 1)

OM_SECTION_NAME == "output_config"
OM_CHANNEL_SECTION_NAME == "channels"
OM_CHANNEL_TYPE_NAME == "type"

(* ------------------------------ JSON objects --------------------------- *)
EmptyObj == [k \in {} |-> 0]

containsKey(o, k) == k \in DOMAIN o

Put(o, k, v) == [x \in (DOMAIN o) \cup {k} |-> IF x = k THEN v ELSE o[x]]

\* String (n) for the one-digit ordinals of the model: the decimal text
DecimalDigits == <<"0", "1", "2", "3", "4", "5", "6", "7", "8", "9">>

String(n) == DecimalDigits[n + 1]

\* serializeJson / deserializeJson: the text of a document; "" is no document
EmptyString == [text |-> "empty"]

serializeJson(doc) == [text |-> "json", json |-> doc]

IsJson(s) == s.text = "json"

Uint16(x) == x % 65536

Min(a, b) == IF a < b THEN a ELSE b

(* ------------------------------ drivers -------------------------------- *)
nullptr == [null |-> TRUE]

NoBuffer == -1

DefaultCount == 1

\* a driver as its constructor leaves it: no buffer window, default settings
NewDriver(ChannelIndex, type) ==
    [ id     |-> ChannelIndex,
      type   |-> type,
      pin    |-> OutputChannelIdToGpioAndPort[ChannelIndex + 1].dataPin,
      uart   |-> OutputChannelIdToGpioAndPort[ChannelIndex + 1].UartId,
      count  |-> DefaultCount,
      begun  |-> FALSE,
      begins |-> 0,
      addr   |-> NoBuffer,
      size   |-> 0 ]

\* the driver's Begin hook; begins counts its calls on this instance
DriverBegin(d) == [d EXCEPT !.begun = TRUE, !.begins = @ + 1]

GetDriverName(d) == OutputTypeXlateMap[d.type + 1]

\* the driver's settings-apply method: accepts a record with a usable count
DriverAccepts(rec) ==
    /\ containsKey(rec, "count")
    /\ rec["count"] \in 1 .. 65535

DriverSetConfig(d, rec) ==
    IF DriverAccepts(rec) THEN [d EXCEPT !.count = rec["count"]] ELSE d

\* the driver's settings-emit method
DriverGetConfig(d, rec) == Put(rec, "count", d.count)

GetNumChannelsNeeded(d) ==
    IF d.type = OutputType_Disabled THEN 0 ELSE d.count


(* --------------------------- manager state ----------------------------- *)
VARIABLES
    pOutputChannelDrivers,  \* slot -> driver record, or nullptr
    HasBeenInitialized,
    ConfigData,             \* the in-memory serialized document
    ConfigSaveNeeded,       \* the dirty flag
    UsedBufferSize,
    file,                   \* content of ConfigFileName on the file system
    last                    \* what the most recent call did (observation only)

vars == << pOutputChannelDrivers, HasBeenInitialized, ConfigData,
           ConfigSaveNeeded, UsedBufferSize, file, last >>

NoFile == [text |-> "nofile"]

\* the observations of one call, before anything has happened in it
NoLast ==
    [ op       |-> "none",
      Response |-> FALSE,
      in       |-> EmptyObj,   \* the document handed to the call
      decoded  |-> FALSE,      \* ProcessJsonConfig ran
      applied  |-> {},         \* slots whose driver's SetConfig was called
      accepted |-> {},         \* slots whose driver accepted its settings
      regen    |-> FALSE,      \* CreateNewConfig ran
      saves    |-> 0,          \* calls of FileIO::SaveConfig
      saved    |-> <<>>,       \* the texts handed to FileIO::SaveConfig
      repart   |-> FALSE,      \* UpdateDisplayBufferReferences ran last
      overflow |-> {},         \* slots reported as overflowing
      notified |-> <<>>,       \* (base, size) passed to InputMgr.SetBufferInfo
      rendered |-> <<>>,       \* slots whose driver's Render was called
      savesAtRender |-> 0,     \* saves already made when the first driver's
                               \* Render was called
      paused   |-> FALSE,      \* IsOutputPaused as the Render tick read it
      before   |-> <<>>,       \* slot types when CreateNewConfig was entered,
                               \* or when the manager was destroyed
      persisted |-> FALSE,     \* destroyed right after a Render that saved
      live     |-> <<>>,       \* per slot, the driver instances now allocated
      maxLive  |-> 0,          \* the most instances one slot had at a time
      io       |-> "none",     \* how the most recent save or load of this
                               \* manager ended; kept from call to call
      early    |-> {},         \* slots whose driver was used (settings, encode,
                               \* render) when Begin had not run once on it
      json     |-> EmptyObj ]  \* result of CreateJsonConfig

\* the manager's fields together with the observations of the running call
Mgr(op) ==
    [ drv   |-> pOutputChannelDrivers,
      data  |-> ConfigData,
      dirty |-> ConfigSaveNeeded,
      used  |-> UsedBufferSize,
      file  |-> file,
      ev    |-> [NoLast EXCEPT
                   !.op = op,
                   !.io = last.io,
                   !.live = [i \in 1 .. OutputChannelId_End |->
                                IF pOutputChannelDrivers[i - 1] = nullptr
                                THEN 0 ELSE 1],
                   !.maxLive = IF \A s \in Slots :
                                      pOutputChannelDrivers[s] = nullptr
                               THEN 0 ELSE 1] ]

(* --------------------------- channel factory --------------------------- *)
\* the relay case written like the serial cases
ConstructDriver_RelayLikeSerial(ChannelIndex, NewOutputChannelType) ==
    LET UartId   == OutputChannelIdToGpioAndPort[ChannelIndex + 1].UartId
        Disabled == NewDriver(ChannelIndex, OutputType_Disabled)
    IN  IF NewOutputChannelType \in OutputType_Start .. (OutputType_End - 1)
           /\ NewOutputChannelType # OutputType_Disabled
           /\ -1 # UartId
        THEN NewDriver(ChannelIndex, NewOutputChannelType)
        ELSE Disabled

\* the driver the switch statement constructs for (channel, requested type)
ConstructDriver(ChannelIndex, NewOutputChannelType) ==
    LET UartId   == OutputChannelIdToGpioAndPort[ChannelIndex + 1].UartId
        Disabled == NewDriver(ChannelIndex, OutputType_Disabled)
    IN  CASE NewOutputChannelType = OutputType_Disabled -> Disabled
          [] NewOutputChannelType = OutputType_DMX ->
                IF -1 = UartId THEN Disabled
                ELSE NewDriver(ChannelIndex, OutputType_DMX)
          [] NewOutputChannelType = OutputType_GECE ->
                IF -1 = UartId THEN Disabled
                ELSE NewDriver(ChannelIndex, OutputType_GECE)
          [] NewOutputChannelType = OutputType_Serial ->
                IF -1 = UartId THEN Disabled
                ELSE NewDriver(ChannelIndex, OutputType_Serial)
          [] NewOutputChannelType = OutputType_Relay ->
                IF -1 # UartId THEN Disabled
                ELSE NewDriver(ChannelIndex, OutputType_Relay)
          [] NewOutputChannelType = OutputType_Renard ->
                IF -1 = UartId THEN Disabled
                ELSE NewDriver(ChannelIndex, OutputType_Renard)
          [] NewOutputChannelType = OutputType_WS2811 ->
                IF -1 = UartId THEN Disabled
                ELSE NewDriver(ChannelIndex, OutputType_WS2811)
          [] OTHER -> Disabled

\* a driver already in the slot is never replaced
NothingToChange_KeepsAny(drv, ChannelIndex, NewOutputChannelType) ==
    drv[ChannelIndex] # nullptr

\* TRUE when the call keeps the existing driver ("nothing to change")
NothingToChange(drv, ChannelIndex, NewOutputChannelType) ==
    /\ drv[ChannelIndex] # nullptr
    /\ drv[ChannelIndex].type = NewOutputChannelType

InstantiateNewOutputChannel(drv, ChannelIndex, NewOutputChannelType) ==
    IF NothingToChange(drv, ChannelIndex, NewOutputChannelType)
    THEN drv
    ELSE [drv EXCEPT ![ChannelIndex] =
              DriverBegin(ConstructDriver(ChannelIndex, NewOutputChannelType))]

\* the slot is cleared but the driver in it is not deleted
ShutDownExisting_NoDelete(m, ChannelIndex) ==
    IF m.drv[ChannelIndex] = nullptr THEN m
    ELSE [m EXCEPT !.drv[ChannelIndex] = nullptr]

\* "shut down the existing driver": delete it and clear the slot
ShutDownExisting(m, ChannelIndex) ==
    IF m.drv[ChannelIndex] = nullptr THEN m
    ELSE [m EXCEPT !.drv[ChannelIndex] = nullptr,
                   !.ev.live[ChannelIndex + 1] = @ - 1]

\* the switch: a new driver is allocated and put into the slot
ConstructInto(m, ChannelIndex, type) ==
    LET n == m.ev.live[ChannelIndex + 1] + 1
    IN  [m EXCEPT !.drv[ChannelIndex] = ConstructDriver(ChannelIndex, type),
                  !.ev.live[ChannelIndex + 1] = n,
                  !.ev.maxLive = IF n > @ THEN n ELSE @]

\* F applied to v; v is evaluated once, before F
Then(v, F(_)) == CHOOSE r \in {F(x) : x \in {v}} : TRUE

\* the slots whose driver has not had exactly one Begin
Unbegun(drv) == {s \in Slots : drv[s].begins # 1}

\* Begin is called after the do-once block, on a kept driver as well
Instantiate_BeginsAlways(m, ChannelIndex, type) ==
    IF NothingToChange(m.drv, ChannelIndex, type)
    THEN [m EXCEPT !.drv[ChannelIndex] = DriverBegin(@)]
    ELSE LET m1 == ShutDownExisting(m, ChannelIndex)
             m2 == ConstructInto(m1, ChannelIndex, type)
         IN  [m2 EXCEPT !.drv[ChannelIndex] = DriverBegin(@),
                        !.ev.repart = FALSE]

\* the same on the manager, step by step: a replaced driver has no window
\* until the buffer is partitioned again
Instantiate(m, ChannelIndex, type) ==
    IF NothingToChange(m.drv, ChannelIndex, type) THEN m
    ELSE LET m1 == ShutDownExisting(m, ChannelIndex)
             m2 == ConstructInto(m1, ChannelIndex, type)
         IN  [m2 EXCEPT !.drv[ChannelIndex] = DriverBegin(@),
                        !.ev.repart = FALSE]

(* --------------------------- buffer partitioner ------------------------ *)
\* the whole need is granted, whatever is left
ChannelsToAllocateOf_Unclamped(ChannelsNeeded, AvailableChannels) ==
    ChannelsNeeded

\* min (ChannelsNeeded, AvailableChannels)
ChannelsToAllocateOf(ChannelsNeeded, AvailableChannels) ==
    Min(ChannelsNeeded, AvailableChannels)

\* a slot that just fits is reported as well
TooManyChannels_OrJustEnough(AvailableChannels, ChannelsNeeded) ==
    AvailableChannels <= ChannelsNeeded

\* the test that logs "Too many output channels have been defined"
TooManyChannels(AvailableChannels, ChannelsNeeded) ==
    AvailableChannels < ChannelsNeeded

\* InputMgr is told the capacity of the buffer instead of what is used
RECURSIVE PartitionFrom_NotifiesCapacity(_, _, _)
PartitionFrom_NotifiesCapacity(m, ChannelIndex, OutputBufferOffset) ==
    IF ChannelIndex >= OutputChannelId_End
    THEN [m EXCEPT !.used = OutputBufferOffset,
                   !.ev.notified = Append(@, [base |-> 0, size |-> BufferSize]),
                   !.ev.repart = TRUE]
    ELSE LET ChannelsNeeded     == Uint16(GetNumChannelsNeeded(m.drv[ChannelIndex]))
             AvailableChannels  == Uint16(BufferSize - OutputBufferOffset)
             ChannelsToAllocate == ChannelsToAllocateOf(ChannelsNeeded, AvailableChannels)
             m1 == [m EXCEPT !.drv[ChannelIndex].addr = OutputBufferOffset,
                             !.drv[ChannelIndex].size = ChannelsToAllocate]
         IN  PartitionFrom_NotifiesCapacity(
                 m1, ChannelIndex + 1,
                 Uint16(OutputBufferOffset + ChannelsToAllocate))

\* the loop of UpdateDisplayBufferReferences from ChannelIndex on, and what
\* follows it; base 0 stands for the address of OutputBuffer [0]
RECURSIVE PartitionFrom(_, _, _)
PartitionFrom(m, ChannelIndex, OutputBufferOffset) ==
    IF ChannelIndex >= OutputChannelId_End
    THEN [m EXCEPT !.used = OutputBufferOffset,
                   !.ev.notified =
                       Append(@, [base |-> 0, size |-> OutputBufferOffset]),
                   !.ev.repart = TRUE]
    ELSE LET ChannelsNeeded     == Uint16(GetNumChannelsNeeded(m.drv[ChannelIndex]))
             AvailableChannels  == Uint16(BufferSize - OutputBufferOffset)
             ChannelsToAllocate == ChannelsToAllocateOf(ChannelsNeeded, AvailableChannels)
             m1 == [m EXCEPT !.drv[ChannelIndex].addr = OutputBufferOffset,
                             !.drv[ChannelIndex].size = ChannelsToAllocate,
                             !.ev.overflow =
                                 IF TooManyChannels(AvailableChannels,
                                                    ChannelsNeeded)
                                 THEN @ \cup {ChannelIndex} ELSE @]
         IN  PartitionFrom(m1, ChannelIndex + 1,
                           Uint16(OutputBufferOffset + ChannelsToAllocate))

UpdateDisplayBufferReferences(m) ==
    PartitionFrom([m EXCEPT !.ev.overflow = {}], OutputChannelId_Start, 0)

(* --------------------------- encode ------------------------------------ *)
\* the channel record is built afresh instead of being merged into
EncodeChannel_Replaces(OutputMgrChannelsData, d) ==
    LET withType == [k \in {OM_CHANNEL_TYPE_NAME} |-> d.type]
        named    == [k \in {"type"} |-> GetDriverName(d)]
    IN  Put(OutputMgrChannelsData, String(d.id),
            Put(withType, String(d.type), DriverGetConfig(d, named)))

\* the selected channel type is not written into the channel record
EncodeChannel_OmitsType(OutputMgrChannelsData, d) ==
    LET sChannelId   == String(d.id)
        ChannelConfigData ==
            IF containsKey(OutputMgrChannelsData, sChannelId)
            THEN OutputMgrChannelsData[sChannelId] ELSE EmptyObj
        DriverTypeId == String(d.type)
        ChannelConfigByTypeData ==
            IF containsKey(ChannelConfigData, DriverTypeId)
            THEN ChannelConfigData[DriverTypeId] ELSE EmptyObj
        named        == Put(ChannelConfigByTypeData, "type", GetDriverName(d))
    IN  Put(OutputMgrChannelsData, sChannelId,
            Put(ChannelConfigData, DriverTypeId, DriverGetConfig(d, named)))

\* one pass of the loop body of CreateJsonConfig, for the driver d
EncodeChannel(OutputMgrChannelsData, d) ==
    LET sChannelId   == String(d.id)
        ChannelConfigData ==
            IF containsKey(OutputMgrChannelsData, sChannelId)
            THEN OutputMgrChannelsData[sChannelId] ELSE EmptyObj
        withType     == Put(ChannelConfigData, OM_CHANNEL_TYPE_NAME, d.type)
        DriverTypeId == String(d.type)
        ChannelConfigByTypeData ==
            IF containsKey(withType, DriverTypeId)
            THEN withType[DriverTypeId] ELSE EmptyObj
        named        == Put(ChannelConfigByTypeData, "type", GetDriverName(d))
    IN  Put(OutputMgrChannelsData, sChannelId,
            Put(withType, DriverTypeId, DriverGetConfig(d, named)))

RECURSIVE EncodeFrom(_, _, _)
EncodeFrom(OutputMgrChannelsData, drv, ChannelIndex) ==
    IF ChannelIndex >= OutputChannelId_End THEN OutputMgrChannelsData
    ELSE EncodeFrom(EncodeChannel(OutputMgrChannelsData, drv[ChannelIndex]),
                    drv, ChannelIndex + 1)

CreateJsonConfig(jsonConfig, drv) ==
    LET OutputMgrChannelsData ==
            IF containsKey(jsonConfig, OM_CHANNEL_SECTION_NAME)
            THEN jsonConfig[OM_CHANNEL_SECTION_NAME] ELSE EmptyObj
    IN  Put(jsonConfig, OM_CHANNEL_SECTION_NAME,
            EncodeFrom(OutputMgrChannelsData, drv, OutputChannelId_Start))

(* --------------------------- persistence ------------------------------- *)
\* FileIO::SaveConfig either writes the whole text or fails (ok = FALSE)
SaveConfig(m, ok) ==
    [m EXCEPT !.file = IF ok THEN m.data ELSE @,
              !.ev.io = IF ok THEN "succeeded" ELSE "save failed",
              !.ev.saves = @ + 1,
              !.ev.saved = Append(@, m.data)]

(* --------------------------- default generation ------------------------ *)
RECURSIVE InstantiateAll(_, _, _)
InstantiateAll(m, ChannelIndex, type) ==
    IF ChannelIndex >= OutputChannelId_End THEN m
    ELSE InstantiateAll(Instantiate(m, ChannelIndex, type),
                        ChannelIndex + 1, type)

\* the closing loop of CreateNewConfig: one pass per slot, ChannelIndex stays 0
RECURSIVE LeaveDisabled(_, _)
LeaveDisabled(m, pass) ==
    IF pass >= OutputChannelId_End THEN m
    ELSE LeaveDisabled(Instantiate(m, 0, OutputType_Disabled), pass + 1)

\* the configuration is collected once, after the last output type
RECURSIVE ForEachOutputType_EncodesOnce(_, _, _)
ForEachOutputType_EncodesOnce(m, JsonConfig, outputTypeId) ==
    IF outputTypeId >= OutputType_End
    THEN [m |-> m, JsonConfig |-> CreateJsonConfig(JsonConfig, m.drv)]
    ELSE ForEachOutputType_EncodesOnce(
             InstantiateAll(m, OutputChannelId_Start, outputTypeId),
             JsonConfig, outputTypeId + 1)

\* the loop over the output types leaves before OutputType_Disabled
RECURSIVE ForEachOutputType_StopsBeforeDisabled(_, _, _)
ForEachOutputType_StopsBeforeDisabled(m, JsonConfig, outputTypeId) ==
    IF outputTypeId >= OutputType_Disabled
    THEN [m |-> m, JsonConfig |-> JsonConfig]
    ELSE LET m1 == InstantiateAll(m, OutputChannelId_Start, outputTypeId)
         IN  ForEachOutputType_StopsBeforeDisabled(
                 m1, CreateJsonConfig(JsonConfig, m1.drv), outputTypeId + 1)

\* the loop over the output types: returns the manager and the document
RECURSIVE ForEachOutputType(_, _, _)
ForEachOutputType(m, JsonConfig, outputTypeId) ==
    IF outputTypeId >= OutputType_End
    THEN [m |-> m, JsonConfig |-> JsonConfig]
    ELSE Then(InstantiateAll(m, OutputChannelId_Start, outputTypeId),
              LAMBDA m1 :
                ForEachOutputType(
                    [m1 EXCEPT !.ev.early = @ \cup Unbegun(m1.drv)],
                    CreateJsonConfig(JsonConfig, m1.drv),
                    outputTypeId + 1))

CreateNewConfig(m, ok) ==
    LET r  == ForEachOutputType(m, EmptyObj, OutputType_Start)
        m1 == LeaveDisabled(r.m, 0)
        JsonConfig    == CreateJsonConfig(r.JsonConfig, m1.drv)
        JsonConfigDoc == [k \in {OM_SECTION_NAME} |-> JsonConfig]
        m2 == [m1 EXCEPT !.data = serializeJson(JsonConfigDoc),
                         !.dirty = FALSE,
                         !.ev.regen = TRUE,
                         !.ev.early = @ \cup Unbegun(m1.drv),
                         !.ev.before =
                             [i \in 1 .. OutputChannelId_End |-> m.drv[i - 1].type]]
    IN  SaveConfig(m2, ok)


(* --------------------------- decode ------------------------------------ *)
\* FileIO::setFromJSON into ChannelType, preset to OutputType_End
ChannelTypeOf(OutputChannelConfig) ==
    IF containsKey(OutputChannelConfig, OM_CHANNEL_TYPE_NAME)
    THEN OutputChannelConfig[OM_CHANNEL_TYPE_NAME]
    ELSE OutputType_End

\* TRUE when the loop leaves at this channel (its section is missing)
StopsAt(OutputChannelArray, ChannelIndex) ==
    ~ containsKey(OutputChannelArray, String(ChannelIndex))

\* the loop over the output channels, from ChannelIndex on
RECURSIVE ForEachOutputChannel(_, _, _)
ForEachOutputChannel(m, OutputChannelArray, ChannelIndex) ==
    IF ChannelIndex >= OutputChannelId_End THEN m
    ELSE IF StopsAt(OutputChannelArray, ChannelIndex) THEN m
    ELSE LET OutputChannelConfig == OutputChannelArray[String(ChannelIndex)]
             ChannelType         == ChannelTypeOf(OutputChannelConfig)
         IN  IF \/ ChannelType < OutputType_Start
                \/ ChannelType >= OutputType_End
                \/ ~ containsKey(OutputChannelConfig, String(ChannelType))
             THEN ForEachOutputChannel(
                      Instantiate(m, ChannelIndex, OutputType_Disabled),
                      OutputChannelArray, ChannelIndex + 1)
             ELSE LET OutputChannelDriverConfig ==
                          OutputChannelConfig[String(ChannelType)]
                      m1 == Instantiate(m, ChannelIndex, ChannelType)
                      ok == DriverAccepts(OutputChannelDriverConfig)
                      m2 == [m1 EXCEPT
                               !.drv[ChannelIndex] =
                                   DriverSetConfig(@, OutputChannelDriverConfig),
                               !.ev.Response = @ \/ ok,
                               !.ev.applied  = @ \cup {ChannelIndex},
                               !.ev.early    =
                                   @ \cup ({ChannelIndex} \cap Unbegun(m1.drv)),
                               !.ev.accepted =
                                   IF ok THEN @ \cup {ChannelIndex} ELSE @]
                  IN  ForEachOutputChannel(m2, OutputChannelArray,
                                           ChannelIndex + 1)

\* the value of Response after the channel loop ("all went well")
AllWentWell(Response) == TRUE

\* the buffer is not partitioned again after the defaults were generated
ProcessJsonConfig_NoUpdateAfterDefaults(m, jsonConfig, saveOk) ==
    LET m1 == [m EXCEPT !.data = serializeJson(jsonConfig),
                        !.ev.decoded = TRUE,
                        !.ev.Response = FALSE]
        m2 == IF ~ containsKey(jsonConfig, OM_SECTION_NAME) THEN m1
              ELSE IF ~ containsKey(jsonConfig[OM_SECTION_NAME],
                                    OM_CHANNEL_SECTION_NAME) THEN m1
              ELSE LET m3 == ForEachOutputChannel(m1,
                                 jsonConfig[OM_SECTION_NAME][OM_CHANNEL_SECTION_NAME],
                                 OutputChannelId_Start)
                   IN  [m3 EXCEPT !.ev.Response = AllWentWell(@)]
    IN  IF m2.ev.Response = FALSE
        THEN CreateNewConfig(m2, saveOk)
        ELSE UpdateDisplayBufferReferences(m2)

ProcessJsonConfig(m, jsonConfig, saveOk) ==
    LET m1 == [m EXCEPT !.data = serializeJson(jsonConfig),
                        !.ev.decoded = TRUE,
                        !.ev.Response = FALSE]
        m2 == IF ~ containsKey(jsonConfig, OM_SECTION_NAME) THEN m1
              ELSE IF ~ containsKey(jsonConfig[OM_SECTION_NAME],
                                    OM_CHANNEL_SECTION_NAME) THEN m1
              ELSE LET m3 == ForEachOutputChannel(m1,
                                 jsonConfig[OM_SECTION_NAME][OM_CHANNEL_SECTION_NAME],
                                 OutputChannelId_Start)
                   IN  [m3 EXCEPT !.ev.Response = AllWentWell(@)]
        m4 == IF m2.ev.Response = FALSE THEN CreateNewConfig(m2, saveOk) ELSE m2
    IN  UpdateDisplayBufferReferences(m4)

\* FileIO::loadConfig: fails when the file is absent or is no JSON text
LoadSucceeds(f) == f # NoFile /\ IsJson(f)

\* a load that fails is not followed by CreateNewConfig
LoadConfig_IgnoresFailure(m, saveOk) ==
    IF LoadSucceeds(m.file)
    THEN ProcessJsonConfig([m EXCEPT !.ev.io = "succeeded"], m.file.json, saveOk)
    ELSE [m EXCEPT !.ev.io = "load failed"]

LoadConfig(m, saveOk) ==
    IF LoadSucceeds(m.file)
    THEN ProcessJsonConfig([m EXCEPT !.ev.io = "succeeded"], m.file.json, saveOk)
    ELSE CreateNewConfig([m EXCEPT !.ev.io = "load failed"], saveOk)

(* --------------------------- input documents --------------------------- *)
TypeName(t) ==
    IF t \in OutputType_Start .. (OutputType_End - 1)
    THEN OutputTypeXlateMap[t + 1] ELSE "?"

SettingsRecord(t, n) == [type |-> TypeName(t), count |-> n]

\* a channel section selecting type t and holding one record, for type r
ChannelSection(t, r, n) ==
    Put([k \in {OM_CHANNEL_TYPE_NAME} |-> t], String(r), SettingsRecord(r, n))

InputTypes ==
    {OutputType_WS2811, OutputType_Relay, OutputType_Disabled}
        \cup (OutputType_End .. MaxTypeField)

\* the channel sections tried on a port with a serial engine
SerialPortChoices ==
    {EmptyObj}
      \cup {ChannelSection(t, t, 1) : t \in InputTypes}
      \cup {ChannelSection(OutputType_WS2811, OutputType_WS2811, MaxCount)}
      \cup {ChannelSection(OutputType_WS2811, OutputType_Disabled, 1)}
      \cup {ChannelSection(OutputType_WS2811, OutputType_WS2811, 0)}
      \cup {ChannelSection(OutputType_WS2811, OutputType_WS2811, BufferSize)}

\* the channel sections tried on a port without one
GpioPortChoices ==
    {EmptyObj}
      \cup {ChannelSection(OutputType_Relay, OutputType_Relay, MaxCount)}
      \cup {ChannelSection(OutputType_WS2811, OutputType_WS2811, 0)}

ChannelChoices(ChannelIndex) ==
    IF OutputChannelIdToGpioAndPort[ChannelIndex + 1].UartId # -1
    THEN SerialPortChoices ELSE GpioPortChoices

\* the request usually sent for a port: the type its hardware supports
UsualChoices(ChannelIndex) ==
    IF OutputChannelIdToGpioAndPort[ChannelIndex + 1].UartId # -1
    THEN {ChannelSection(OutputType_WS2811, OutputType_WS2811, MaxCount)}
    ELSE {ChannelSection(OutputType_Relay, OutputType_Relay, MaxCount)}

\* channel arrays naming any subset of the slots; at most one slot of an
\* array departs from the usual request
InputChannelArrays ==
    UNION { { a \in [{String(s) : s \in K} -> SerialPortChoices \cup GpioPortChoices] :
                /\ \A s \in K : a[String(s)] \in ChannelChoices(s)
                /\ Cardinality({s \in K : a[String(s)] \notin UsualChoices(s)}) <= 1 } :
            K \in SUBSET Slots }

InputDocs ==
    {[k \in {"device"} |-> EmptyObj]}
      \cup {[k \in {OM_SECTION_NAME} |-> EmptyObj]}
      \cup {[k \in {OM_SECTION_NAME} |->
                 [j \in {OM_CHANNEL_SECTION_NAME} |-> a]] :
            a \in InputChannelArrays}

(* --------------------------- actions ----------------------------------- *)
Store(m) ==
    /\ pOutputChannelDrivers' = m.drv
    /\ ConfigData' = m.data
    /\ ConfigSaveNeeded' = m.dirty
    /\ UsedBufferSize' = m.used
    /\ file' = m.file
    /\ last' = m.ev

\* what the file system can hold at ConfigFileName when the device starts:
\* nothing, a document of another module, or an empty manager section
StoredFiles ==
    { NoFile,
      serializeJson([k \in {"device"} |-> EmptyObj]),
      serializeJson([k \in {OM_SECTION_NAME} |-> EmptyObj]) }

Init ==
    /\ pOutputChannelDrivers = [s \in Slots |-> nullptr]
    /\ HasBeenInitialized = FALSE
    /\ ConfigData = EmptyString
    /\ ConfigSaveNeeded = FALSE
    /\ UsedBufferSize = 0
    /\ file \in StoredFiles
    /\ last = NoLast

\* the loop of Begin that puts a Disabled driver into every slot
MakeSurePointersAreSetUp(m) ==
    InstantiateAll(m, OutputChannelId_Start, OutputType_Disabled)

\* the recall guard is set but the slots are never filled
Begin_SkipsSetup ==
    /\ HasBeenInitialized' = TRUE
    /\ last' = [NoLast EXCEPT !.op = "Begin"]
    /\ UNCHANGED << pOutputChannelDrivers, ConfigData, ConfigSaveNeeded,
                    UsedBufferSize, file >>

\* no guard against recalls: every call sets the slots up and loads again
Begin_NoRecallGuard ==
    /\ HasBeenInitialized' = TRUE
    /\ \E saveOk \in BOOLEAN :
           Store(LoadConfig(MakeSurePointersAreSetUp(Mgr("Begin")), saveOk))

Begin ==
    \/ /\ HasBeenInitialized = FALSE
       /\ HasBeenInitialized' = TRUE
       /\ \E saveOk \in BOOLEAN :
              Store(LoadConfig(MakeSurePointersAreSetUp(Mgr("Begin")), saveOk))
    \/ /\ HasBeenInitialized = TRUE
       /\ last' = Mgr("BeginAgain").ev
       /\ UNCHANGED << pOutputChannelDrivers, HasBeenInitialized, ConfigData,
                       ConfigSaveNeeded, UsedBufferSize, file >>

\* the save is scheduled whatever the document holds
SetConfigOn_AlwaysSchedules(m, jsonConfig, saveOk) ==
    IF containsKey(jsonConfig, OM_SECTION_NAME)
    THEN [ProcessJsonConfig(m, jsonConfig, saveOk) EXCEPT !.dirty = TRUE]
    ELSE [m EXCEPT !.dirty = TRUE]

\* SetConfig proper: the manager after the call on jsonConfig
SetConfigOn(m, jsonConfig, saveOk) ==
    IF containsKey(jsonConfig, OM_SECTION_NAME)
    THEN [ProcessJsonConfig(m, jsonConfig, saveOk) EXCEPT !.dirty = TRUE]
    ELSE m

\* the document a client gets when the running slots are encoded into a
\* new manager section
EncodedSlots ==
    [k \in {OM_SECTION_NAME} |->
        CreateJsonConfig(EmptyObj, pOutputChannelDrivers)]

\* the outcome of a save matters only to a call that saves
SetConfigWith(Documents) ==
    /\ HasBeenInitialized
    /\ \E jsonConfig \in Documents :
          LET m0 == [Mgr("SetConfig") EXCEPT !.ev.in = jsonConfig]
              r  == SetConfigOn(m0, jsonConfig, TRUE)
          IN  \/ Store(r)
              \/ /\ r.ev.saves > 0
                 /\ Store(SetConfigOn(m0, jsonConfig, FALSE))
    /\ UNCHANGED HasBeenInitialized

SetConfig == SetConfigWith(InputDocs \cup {EncodedSlots})

LoadConfigCall ==
    /\ HasBeenInitialized
    /\ \E saveOk \in BOOLEAN : Store(LoadConfig(Mgr("LoadConfig"), saveOk))
    /\ UNCHANGED HasBeenInitialized

CreateNewConfigCall ==
    /\ HasBeenInitialized
    /\ \E saveOk \in BOOLEAN :
          Store(CreateNewConfig(Mgr("CreateNewConfig"), saveOk))
    /\ UNCHANGED HasBeenInitialized

RenderDrivers(m) ==
    [m EXCEPT !.ev.rendered =
                  [i \in 1 .. OutputChannelId_End |-> m.drv[i - 1].id],
              !.ev.savesAtRender = m.ev.saves,
              !.ev.early = @ \cup Unbegun(m.drv)]

\* the request for a save is dropped: the flag is cleared, nothing is written
SaveIfNeeded_DropsRequest(m, saveOk) ==
    [m EXCEPT !.dirty = FALSE]

\* the pending save of a tick
SaveIfNeeded(m, saveOk) ==
    IF m.dirty = TRUE
    THEN SaveConfig([m EXCEPT !.dirty = FALSE], saveOk)
    ELSE m

\* the flag is cleared only when the save succeeded
Render_RetriesFailedSave ==
    /\ HasBeenInitialized
    /\ \E saveOk \in BOOLEAN, IsOutputPaused \in BOOLEAN :
          LET m0 == [Mgr("Render") EXCEPT !.ev.paused = IsOutputPaused]
              m1 == IF m0.dirty = TRUE
                    THEN SaveConfig([m0 EXCEPT !.dirty = ~ saveOk], saveOk)
                    ELSE m0
          IN  Store(IF IsOutputPaused = FALSE THEN RenderDrivers(m1) ELSE m1)
    /\ UNCHANGED HasBeenInitialized

\* the drivers render first, the pending save comes after them
Render_SavesLast ==
    /\ HasBeenInitialized
    /\ \E saveOk \in BOOLEAN, IsOutputPaused \in BOOLEAN :
          LET m0 == [Mgr("Render") EXCEPT !.ev.paused = IsOutputPaused]
              m1 == IF IsOutputPaused = FALSE THEN RenderDrivers(m0) ELSE m0
          IN  Store(SaveIfNeeded(m1, saveOk))
    /\ UNCHANGED HasBeenInitialized

\* a paused tick returns at once
Render_PausedDoesNothing ==
    /\ HasBeenInitialized
    /\ \E saveOk \in BOOLEAN, IsOutputPaused \in BOOLEAN :
          LET m0 == [Mgr("Render") EXCEPT !.ev.paused = IsOutputPaused]
          IN  Store(IF IsOutputPaused = FALSE
                    THEN RenderDrivers(SaveIfNeeded(m0, saveOk))
                    ELSE m0)
    /\ UNCHANGED HasBeenInitialized

\* one pass of loop(). IsOutputPaused is a member that this file only reads
\* (line 878); whoever writes it is outside this file, so each tick may
\* find either value.
Render ==
    /\ HasBeenInitialized
    /\ \E saveOk \in BOOLEAN, IsOutputPaused \in BOOLEAN :
          LET m0 == [Mgr("Render") EXCEPT !.ev.paused = IsOutputPaused]
              m1 == SaveIfNeeded(m0, saveOk)
          IN  Store(IF IsOutputPaused = FALSE THEN RenderDrivers(m1) ELSE m1)
    /\ UNCHANGED HasBeenInitialized

\* the document CreateJsonConfig is called on: the manager section of the
\* saved configuration together with a key of somebody else, or none yet
EncodeInputs ==
    IF LoadSucceeds(file) /\ containsKey(file.json, OM_SECTION_NAME)
    THEN {Put(file.json[OM_SECTION_NAME], "id", "om")}
    ELSE {EmptyObj}

CreateJsonConfigCall ==
    /\ HasBeenInitialized
    /\ \E jsonConfig \in EncodeInputs :
          last' = [NoLast EXCEPT
                     !.op = "CreateJsonConfig",
                     !.io = last.io,
                     !.in = jsonConfig,
                     !.early = Unbegun(pOutputChannelDrivers),
                     !.json = CreateJsonConfig(jsonConfig, pOutputChannelDrivers)]
    /\ UNCHANGED << pOutputChannelDrivers, HasBeenInitialized, ConfigData,
                    ConfigSaveNeeded, UsedBufferSize, file >>

\* the destructor followed by the constructor: the device restarts
Restart ==
    /\ pOutputChannelDrivers' = [s \in Slots |-> nullptr]
    /\ HasBeenInitialized' = FALSE
    /\ ConfigData' = EmptyString
    /\ ConfigSaveNeeded' = FALSE
    /\ UsedBufferSize' = 0
    /\ last' = [NoLast EXCEPT
                  !.op = "Restart",
                  !.before =
                      IF HasBeenInitialized
                      THEN [i \in 1 .. OutputChannelId_End |->
                               pOutputChannelDrivers[i - 1].type]
                      ELSE <<>>,
                  !.persisted = /\ last.op = "Render"
                                /\ last.saves = 1
                                /\ file = ConfigData]
    /\ UNCHANGED file

Next ==
    \/ Begin
    \/ SetConfig
    \/ LoadConfigCall
    \/ CreateNewConfigCall
    \/ CreateJsonConfigCall
    \/ Render
    \/ Restart

Spec == Init /\ [][Next]_vars

\* Render is called from loop() on every pass (line 867): while the manager
\* runs, a tick that would change something is not postponed for ever
CompleteDocs ==
    {d \in InputDocs :
        (/\ containsKey(d, OM_SECTION_NAME)
         /\ containsKey(d[OM_SECTION_NAME], OM_CHANNEL_SECTION_NAME))
        => DOMAIN d[OM_SECTION_NAME][OM_CHANNEL_SECTION_NAME]
               = {String(s) : s \in Slots}}

\* the same manager driven by clients whose channel arrays name every slot
FairNext ==
    \/ Begin
    \/ SetConfigWith(CompleteDocs)
    \/ LoadConfigCall
    \/ CreateNewConfigCall
    \/ CreateJsonConfigCall
    \/ Render
    \/ Restart

FairSpec == Init /\ [][FairNext]_vars /\ WF_vars(Render)


(* ====================== properties of the manager ====================== *)
Driver(s) == pOutputChannelDrivers[s]

UartOf(s) == OutputChannelIdToGpioAndPort[s + 1].UartId

SerialFamily ==
    {OutputType_WS2811, OutputType_GECE, OutputType_Serial,
     OutputType_Renard, OutputType_DMX}

\* the feasibility rule as the specification states it
Feasible(s, T) ==
    \/ T = OutputType_Disabled
    \/ T \in SerialFamily /\ UartOf(s) # -1
    \/ T = OutputType_Relay /\ UartOf(s) = -1

\* every value a caller can cast to e_OutputType in the model
RequestableTypes == (OutputType_Start - 1) .. (MaxTypeField + 1)

\* the channels section of a document, when it has one
HasChannels(doc) ==
    /\ containsKey(doc, OM_SECTION_NAME)
    /\ containsKey(doc[OM_SECTION_NAME], OM_CHANNEL_SECTION_NAME)

ChannelsOf(doc) == doc[OM_SECTION_NAME][OM_CHANNEL_SECTION_NAME]

\* the call just made decoded a document that has both sections
DecodedChannels == last.op = "SetConfig" /\ last.decoded /\ HasChannels(last.in)

\* the channel loop of that decode reached slot s
Reached(s) ==
    \A r \in Slots : r <= s => containsKey(ChannelsOf(last.in), String(r))

\* slot s was reached and its section selects a valid type that has a record
AsksFor(s, T) ==
    /\ Reached(s)
    /\ LET c == ChannelsOf(last.in)[String(s)]
       IN  /\ containsKey(c, OM_CHANNEL_TYPE_NAME)
           /\ c[OM_CHANNEL_TYPE_NAME] = T
           /\ T \in OutputType_Start .. (OutputType_End - 1)
           /\ containsKey(c, String(T))

\* C1: once Begin has completed, between calls every slot of
\* pOutputChannelDrivers holds a driver (never nullptr), the one built for
\* that slot and begun.
C1_SlotsNeverNull ==
    HasBeenInitialized =>
        \A s \in Slots :
            /\ Driver(s) # nullptr
            /\ Driver(s).id = s
            /\ Driver(s).begun

C1_Witness ==
    /\ HasBeenInitialized
    /\ last.op = "SetConfig"
    /\ DecodedChannels
    /\ ~ Reached(0)
    /\ Driver(0).type = OutputType_WS2811

\* C2: from every reachable slot state (nullptr included) and for every
\* requested type T, InstantiateNewOutputChannel (slot, T) leaves the slot
\* with a driver of type T when T is feasible on the slot and of type
\* Disabled otherwise.
C2_EnsureResolvesType ==
    \A s \in Slots, T \in RequestableTypes :
        LET after == InstantiateNewOutputChannel(pOutputChannelDrivers, s, T)[s]
        IN  /\ after # nullptr
            /\ after.type = IF Feasible(s, T) THEN T ELSE OutputType_Disabled

C2_Witness ==
    /\ DecodedChannels
    /\ AsksFor(0, OutputType_WS2811) /\ Driver(0).type = OutputType_WS2811
    /\ AsksFor(1, OutputType_Relay) /\ Driver(1).type = OutputType_Relay

\* C3: a decode that asks for type T on a slot it reaches gets T when the
\* rule allows it (serial family iff UartId # -1, Relay iff UartId = -1,
\* Disabled always) and Disabled otherwise, and the infeasible request does
\* not fail the decode: it returns true and the driver still gets settings.
C3_FeasibilityRule ==
    DecodedChannels =>
        /\ last.Response = TRUE
        /\ \A s \in Slots, T \in OutputType_Start .. (OutputType_End - 1) :
               AsksFor(s, T) =>
                   /\ s \in last.applied
                   /\ T \in SerialFamily =>
                          Driver(s).type = IF UartOf(s) # -1 THEN T
                                           ELSE OutputType_Disabled
                   /\ T = OutputType_Relay =>
                          Driver(s).type = IF UartOf(s) = -1 THEN T
                                           ELSE OutputType_Disabled
                   /\ T = OutputType_Disabled =>
                          Driver(s).type = OutputType_Disabled

C3_Witness ==
    /\ DecodedChannels
    /\ AsksFor(0, OutputType_Relay)
    /\ UartOf(0) # -1
    /\ Driver(0).type = OutputType_Disabled
    /\ AsksFor(1, OutputType_Relay)
    /\ Driver(1).type = OutputType_Relay

RECURSIVE GrantedBelow(_)
\* the sum of the window sizes of the slots below s
GrantedBelow(s) ==
    IF s <= OutputChannelId_Start THEN 0
    ELSE GrantedBelow(s - 1) + Driver(s - 1).size

\* C4: after UpdateDisplayBufferReferences the windows start at 0, follow
\* one another in slot order without overlap, each is as large as
\* min (channels needed, capacity less the windows below), and together
\* they fit the buffer.
C4_PartitionShape ==
    last.repart =>
        /\ \A s \in Slots :
              /\ Driver(s).addr = GrantedBelow(s)
              /\ Driver(s).size =
                     Min(GetNumChannelsNeeded(Driver(s)),
                         BufferSize - GrantedBelow(s))
        /\ \A s, t \in Slots :
              s < t => Driver(s).addr + Driver(s).size <= Driver(t).addr
        /\ GrantedBelow(OutputChannelId_End) <= BufferSize
        /\ UsedBufferSize = GrantedBelow(OutputChannelId_End)

C4_Witness ==
    /\ last.repart
    /\ \E s \in Slots :
          /\ Driver(s).size > 0
          /\ Driver(s).size < GetNumChannelsNeeded(Driver(s))
          /\ Driver(s).addr > 0


\* the keys of the channels section that name a slot
SlotKeys == {String(s) : s \in Slots}

ValidTypes == OutputType_Start .. (OutputType_End - 1)

\* the serialized document data holds a settings record for type T on slot s
HasRecord(data, s, T) ==
    /\ IsJson(data)
    /\ HasChannels(data.json)
    /\ containsKey(ChannelsOf(data.json), String(s))
    /\ containsKey(ChannelsOf(data.json)[String(s)], String(T))

\* C5: a SetConfig that makes another type active on a channel keeps every
\* settings record the in-memory document held for that channel.
C5_RecordsOnlyGrow ==
    [][ last'.op = "SetConfig" =>
            \A s \in Slots, T \in ValidTypes :
                ( /\ HasRecord(ConfigData, s, T)
                  /\ pOutputChannelDrivers'[s].type # T )
                    => HasRecord(ConfigData', s, T) ]_vars

\* C6: CreateJsonConfig on an existing document changes, per slot, only the
\* selected-type field and the record keyed by the current driver type;
\* every other record of the channel and every other key stay as they were.
C6_EncodeFrame ==
    last.op = "CreateJsonConfig" =>
        LET in    == last.in
            out   == last.json
            inCh  == IF containsKey(in, OM_CHANNEL_SECTION_NAME)
                     THEN in[OM_CHANNEL_SECTION_NAME] ELSE EmptyObj
            outCh == out[OM_CHANNEL_SECTION_NAME]
        IN  /\ DOMAIN out = (DOMAIN in) \cup {OM_CHANNEL_SECTION_NAME}
            /\ \A k \in (DOMAIN in) \ {OM_CHANNEL_SECTION_NAME} : out[k] = in[k]
            /\ DOMAIN outCh = (DOMAIN inCh) \cup SlotKeys
            /\ \A k \in (DOMAIN inCh) \ SlotKeys : outCh[k] = inCh[k]
            /\ \A s \in Slots :
                  LET old == IF containsKey(inCh, String(s))
                             THEN inCh[String(s)] ELSE EmptyObj
                      new == outCh[String(s)]
                      cur == String(Driver(s).type)
                  IN  /\ DOMAIN new = (DOMAIN old) \cup {OM_CHANNEL_TYPE_NAME, cur}
                      /\ \A k \in (DOMAIN old) \ {OM_CHANNEL_TYPE_NAME, cur} :
                             new[k] = old[k]
                      /\ new[OM_CHANNEL_TYPE_NAME] = Driver(s).type
                      /\ new[cur]["count"] = Driver(s).count

C6_Witness ==
    /\ last.op = "CreateJsonConfig"
    /\ containsKey(last.in, "id")
    /\ containsKey(last.in, OM_CHANNEL_SECTION_NAME)
    /\ \E s \in Slots :
          LET old == last.in[OM_CHANNEL_SECTION_NAME]
              new == last.json[OM_CHANNEL_SECTION_NAME]
          IN  /\ containsKey(old, String(s))
              /\ new[String(s)] # old[String(s)]
              /\ \E T \in ValidTypes :
                    /\ T # Driver(s).type
                    /\ containsKey(old[String(s)], String(T))
                    /\ new[String(s)][String(T)] = old[String(s)][String(T)]

\* C7: a decode of a document with both sections leaves every slot whose
\* channel section is missing Disabled, and goes on to the slots above it.
C7_MissingChannelDisabled ==
    DecodedChannels =>
        \A s \in Slots :
            /\ ~ containsKey(ChannelsOf(last.in), String(s))
                   => Driver(s).type = OutputType_Disabled
            /\ ( /\ containsKey(ChannelsOf(last.in), String(s))
                 /\ LET c == ChannelsOf(last.in)[String(s)]
                    IN  /\ ChannelTypeOf(c) \in ValidTypes
                        /\ containsKey(c, String(ChannelTypeOf(c))) )
                   => s \in last.applied

\* the section of slot s is there but selects nothing usable
Unusable(s) ==
    /\ containsKey(ChannelsOf(last.in), String(s))
    /\ LET c == ChannelsOf(last.in)[String(s)]
       IN  \/ ~ containsKey(c, OM_CHANNEL_TYPE_NAME)
           \/ ChannelTypeOf(c) \notin ValidTypes
           \/ ~ containsKey(c, String(ChannelTypeOf(c)))

\* C8: after a decode, a slot whose channel record has no type field, a type
\* out of range or no record for its type is Disabled and got no settings.
C8_UnusableChannelDisabled ==
    DecodedChannels =>
        \A s \in Slots :
            Unusable(s) =>
                /\ Driver(s).type = OutputType_Disabled
                /\ s \notin last.applied

\* C9: the result of a decode is the OR of what the drivers' SetConfig calls
\* returned, and a decode in which no driver accepted regenerates defaults.
C9_ResponseIsOrOfAccepted ==
    last.decoded =>
        /\ last.Response = (last.accepted # {})
        /\ last.accepted = {} => last.regen

\* C10 as claimed: after CreateNewConfig the document has a record for every
\* slot and every type, feasible on the slot or not.
C10_FullMatrix ==
    last.regen =>
        \A s \in Slots, T \in ValidTypes : HasRecord(ConfigData, s, T)

\* C10 as amended: after CreateNewConfig the document has a settings record
\* for every slot and every type that is feasible on the slot's descriptor.
C10_FeasibleMatrix ==
    last.regen =>
        \A s \in Slots, T \in ValidTypes :
            Feasible(s, T) =>
                /\ HasRecord(ConfigData, s, T)
                /\ ChannelsOf(ConfigData.json)[String(s)][String(T)]["type"]
                       = TypeName(T)

C10_Witness ==
    /\ last.regen
    /\ \A s \in Slots, T \in ValidTypes :
          HasRecord(ConfigData, s, T) <=> Feasible(s, T)
    /\ \E s \in Slots, T \in ValidTypes : ~ Feasible(s, T)

\* the types the slots had when the CreateNewConfig of the last call began
TypeBefore(s) == last.before[s + 1]

\* C11: CreateNewConfig ends with every slot, not only slot 0, holding the
\* Disabled driver and with the selected-type field of every channel of the
\* generated document equal to Disabled, whatever the slots held before.
C11_AllSlotsDisabled ==
    last.regen =>
        /\ IsJson(ConfigData)
        /\ HasChannels(ConfigData.json)
        /\ \A s \in Slots :
              /\ Driver(s).type = OutputType_Disabled
              /\ containsKey(ChannelsOf(ConfigData.json), String(s))
              /\ ChannelsOf(ConfigData.json)[String(s)][OM_CHANNEL_TYPE_NAME]
                     = OutputType_Disabled

C11_Witness ==
    /\ last.regen
    /\ TypeBefore(0) = OutputType_WS2811
    /\ TypeBefore(1) = OutputType_Relay
    /\ \A s \in Slots : Driver(s).type = OutputType_Disabled

\* the first call of Begin is the step that sets HasBeenInitialized
BeginStep == HasBeenInitialized = FALSE /\ HasBeenInitialized' = TRUE

\* the stored configuration is absent, or loads but lacks a section
StoredAbsentOrEmpty(f) == ~ LoadSucceeds(f) \/ ~ HasChannels(f.json)

\* the record CreateNewConfig leaves for slot s when it starts from new
\* Disabled drivers: default settings for every type the slot can run
DefaultChannel(s) ==
    [k \in {OM_CHANNEL_TYPE_NAME} \cup {String(T) : T \in {U \in ValidTypes : Feasible(s, U)}} |->
        IF k = OM_CHANNEL_TYPE_NAME THEN OutputType_Disabled
        ELSE SettingsRecord(CHOOSE T \in ValidTypes : String(T) = k, DefaultCount)]

DefaultDocument ==
    [k \in {OM_SECTION_NAME} |->
        [j \in {OM_CHANNEL_SECTION_NAME} |->
            [c \in SlotKeys |-> DefaultChannel(CHOOSE s \in Slots : String(s) = c)]]]

\* C12 as claimed: Begin on an absent or empty stored configuration ends
\* with all slots Disabled, a new default document with a record for every
\* slot and every type in memory, and that document handed to one save.
C12_BeginFullMatrix ==
    [][ (BeginStep /\ StoredAbsentOrEmpty(file)) =>
            /\ \A s \in Slots :
                  pOutputChannelDrivers'[s].type = OutputType_Disabled
            /\ \A s \in Slots, T \in ValidTypes : HasRecord(ConfigData', s, T)
            /\ last'.saved = << ConfigData' >> ]_vars

\* C12 as amended: Begin on an absent or empty stored configuration ends
\* with all slots Disabled, the in-memory document replaced by the new
\* default document (default settings for every slot and every type
\* feasible on it), and exactly that document handed to one save attempt.
C12_BeginRegenerates ==
    [][ (BeginStep /\ StoredAbsentOrEmpty(file)) =>
            /\ \A s \in Slots :
                  pOutputChannelDrivers'[s].type = OutputType_Disabled
            /\ ConfigData' = serializeJson(DefaultDocument)
            /\ last'.saved = << ConfigData' >> ]_vars

\* Begin decoded an empty stored document, regenerated, and the save failed
C12_Witness ==
    /\ last.op = "Begin"
    /\ last.decoded /\ last.regen
    /\ LoadSucceeds(file) /\ ~ HasChannels(file.json)
    /\ ConfigData = serializeJson(DefaultDocument)
    /\ last.saved = << ConfigData >>

\* C13: a driver is rendered only with a buffer window that a run of
\* UpdateDisplayBufferReferences assigned after the driver was constructed:
\* every replacement is followed by a repartition before the next Render.
C13_RenderedOnlyPartitioned ==
    last.op = "Render" =>
        \A i \in 1 .. Len(last.rendered) :
            Driver(last.rendered[i]).addr # NoBuffer

\* C14: the configuration changes made between two Render ticks cost one
\* write: a SetConfig that decodes writes nothing itself and leaves the save
\* pending, and the next Render writes once when a save is pending and not
\* at all otherwise.
C14_OneWritePerBurst ==
    [][ /\ (last'.op = "SetConfig" /\ last'.decoded) =>
               /\ last'.saves = 0
               /\ ConfigSaveNeeded' = TRUE
        /\ last'.op = "Render" =>
               /\ last'.saves = IF ConfigSaveNeeded THEN 1 ELSE 0
               /\ ConfigSaveNeeded' = FALSE ]_vars

\* C15: SetConfig sets ConfigSaveNeeded only when it returns true; a
\* SetConfig that returns false leaves the flag as it was.
C15_DirtyOnlyOnSuccess ==
    [][ (last'.op = "SetConfig" /\ last'.Response = FALSE) =>
            ConfigSaveNeeded' = ConfigSaveNeeded ]_vars

\* C16: for every slot and every requested type, feasible on the slot or
\* not, the second of two consecutive InstantiateNewOutputChannel (slot, T)
\* takes the nothing-to-change path (no destroy, no construct, no Begin) and
\* leaves the slots as the first call left them.
C16_SecondCallIsNoOp ==
    \A s \in Slots, T \in RequestableTypes :
        LET once  == InstantiateNewOutputChannel(pOutputChannelDrivers, s, T)
            twice == InstantiateNewOutputChannel(once, s, T)
        IN  /\ NothingToChange(once, s, T)
            /\ twice = once

\* C17: encoding the slots with CreateJsonConfig and decoding that document
\* with ProcessJsonConfig succeeds and leaves every slot with the type and
\* the settings it had before the encode.
C17_RoundTrip ==
    [][ (HasBeenInitialized /\ last'.op = "SetConfig"
                            /\ last'.in = EncodedSlots) =>
            /\ last'.decoded
            /\ last'.Response = TRUE
            /\ ~ last'.regen
            /\ \A s \in Slots :
                  /\ pOutputChannelDrivers'[s].type = Driver(s).type
                  /\ pOutputChannelDrivers'[s].count = Driver(s).count ]_vars

\* SetConfig decoded the encoding of a running WS2811 and a running Relay
C17_Witness ==
    /\ last.op = "SetConfig"
    /\ last.in = EncodedSlots
    /\ last.applied = Slots
    /\ Driver(0).type = OutputType_WS2811 /\ Driver(0).count = MaxCount
    /\ Driver(1).type = OutputType_Relay
    /\ ConfigData = serializeJson(EncodedSlots)

\* C18: when the manager is restarted right after a Render whose save
\* succeeded, Begin's load of the persisted document gives every slot the
\* driver type it had before the restart.
C18_RestartRestoresTypes ==
    [][ (BeginStep /\ last.op = "Restart" /\ last.persisted) =>
            \A s \in Slots :
                pOutputChannelDrivers'[s].type = TypeBefore(s) ]_vars

\* the capacity left when the partitioner comes to slot s
AvailableAt(s) == BufferSize - GrantedBelow(s)

\* C19: UpdateDisplayBufferReferences reports an overflow for a slot exactly
\* when the capacity left at that slot is less than the slot's need, runs to
\* the last slot all the same, and gives every later slot a window, of
\* length zero once the buffer is used up.
C19_OverflowReported ==
    last.repart =>
        /\ last.overflow =
               {s \in Slots : AvailableAt(s) < GetNumChannelsNeeded(Driver(s))}
        /\ Len(last.notified) = 1
        /\ \A s \in Slots :
              /\ Driver(s).addr # NoBuffer
              /\ Driver(s).addr = GrantedBelow(s)
              /\ Driver(s).size >= 0
              /\ AvailableAt(s) = 0 => Driver(s).size = 0
              /\ s \in last.overflow => Driver(s).size = AvailableAt(s)

\* two slots with the same need, the buffer holding less than both: the
\* second window is cut short and reported
C19_Witness ==
    /\ last.repart
    /\ GetNumChannelsNeeded(Driver(0)) = MaxCount
    /\ GetNumChannelsNeeded(Driver(1)) = MaxCount
    /\ Driver(0).addr = 0 /\ Driver(0).size = MaxCount
    /\ Driver(1).addr = MaxCount /\ Driver(1).size = BufferSize - MaxCount
    /\ Driver(1).size > 0
    /\ last.overflow = {1}

\* the first slot uses the buffer up: the second gets an empty window at
\* the end of the buffer and is reported
C19_WitnessExhausted ==
    /\ last.repart
    /\ Driver(0).size = BufferSize
    /\ GetNumChannelsNeeded(Driver(1)) > 0
    /\ Driver(1).addr = BufferSize /\ Driver(1).size = 0
    /\ last.overflow = {1}

\* C20: a Render tick leaves ConfigSaveNeeded false whether its save
\* succeeded or failed, saves only when the flag was set, and changes
\* neither the drivers nor the in-memory document; a failed save leaves the
\* file as it was; and only a reconfiguration (SetConfig) sets the flag.
C20_FailedSaveNotRetried ==
    [][ /\ last'.op = "Render" =>
               /\ ConfigSaveNeeded' = FALSE
               /\ last'.saved = IF ConfigSaveNeeded THEN << ConfigData >>
                                                   ELSE << >>
               /\ pOutputChannelDrivers' = pOutputChannelDrivers
               /\ ConfigData' = ConfigData
               /\ file' \in {file, ConfigData}
        /\ (ConfigSaveNeeded' /\ ~ ConfigSaveNeeded) => last'.op = "SetConfig"
      ]_vars

\* a Render whose save failed: the flag is down, the file is behind
C20_Witness ==
    /\ last.op = "Render"
    /\ last.saved = << ConfigData >>
    /\ file # ConfigData
    /\ ConfigSaveNeeded = FALSE
    /\ Len(last.rendered) = OutputChannelId_End

\* C21: every ProcessJsonConfig, whichever way it takes (a section missing,
\* channels falling back to Disabled, defaults regenerated, or all applied),
\* ends with UpdateDisplayBufferReferences, run after the last driver
\* replacement of that decode: every driver has a window when it returns.
C21_DecodeEndsWithUpdate ==
    last.decoded =>
        /\ last.repart
        /\ Len(last.notified) = 1
        /\ \A s \in Slots : Driver(s).addr # NoBuffer

\* a decode that found no channels section, regenerated the defaults (which
\* replaced running drivers) and then partitioned the buffer
C21_Witness ==
    /\ last.op = "SetConfig"
    /\ last.decoded /\ last.regen /\ last.repart
    /\ ~ HasChannels(last.in)
    /\ \E s \in Slots : TypeBefore(s) # OutputType_Disabled

\* C22: after every repartition InputMgr.SetBufferInfo has been called
\* exactly once, with the base of the buffer and the sum of the window sizes
\* granted to the slots, and UsedBufferSize holds that sum.
C22_ConsumerNotifiedOnce ==
    last.repart =>
        /\ last.notified =
               << [base |-> 0, size |-> GrantedBelow(OutputChannelId_End)] >>
        /\ UsedBufferSize = GrantedBelow(OutputChannelId_End)
        /\ Driver(OutputChannelId_Start).addr = last.notified[1].base

\* both slots hold a window and the consumer was told their sum
C22_Witness ==
    /\ last.repart
    /\ Driver(0).size > 0 /\ Driver(1).size > 0
    /\ Len(last.notified) = 1
    /\ last.notified[1].size = Driver(0).size + Driver(1).size
    /\ UsedBufferSize = last.notified[1].size

\* little is used: the consumer is told less than the capacity
C22_WitnessPartlyUsed ==
    /\ last.repart
    /\ Len(last.notified) = 1
    /\ last.notified[1].size > 0
    /\ last.notified[1].size < BufferSize

\* C23: when InstantiateNewOutputChannel replaces the driver of a slot the
\* old instance is deleted before the new one is allocated: no slot ever has
\* two instances at a time, and every call leaves one instance per slot.
C23_DestroyBeforeConstruct ==
    /\ last.maxLive <= 1
    /\ \A i \in 1 .. Len(last.live) : last.live[i] = 1
    /\ \A s \in Slots, T \in RequestableTypes :
          HasBeenInitialized =>
              LET after == Instantiate(Mgr("none"), s, T)
              IN  /\ after.ev.maxLive = 1
                  /\ after.ev.live[s + 1] = 1
                  /\ after.drv = InstantiateNewOutputChannel(
                                     pOutputChannelDrivers, s, T)

\* CreateNewConfig replaced a running WS2811 and a running Relay driver
C23_Witness ==
    /\ last.regen
    /\ TypeBefore(0) = OutputType_WS2811
    /\ TypeBefore(1) = OutputType_Relay
    /\ last.live = [i \in 1 .. OutputChannelId_End |-> 1]
    /\ last.maxLive = 1

\* C24: every driver InstantiateNewOutputChannel constructs, a substituted
\* Disabled driver included, has had its Begin called exactly once when the
\* call returns, and no driver is given settings, encoded or rendered
\* before that or after a second Begin.
C24_BegunExactlyOnce ==
    /\ HasBeenInitialized => Unbegun(pOutputChannelDrivers) = {}
    /\ last.early = {}
    /\ \A s \in Slots, T \in RequestableTypes :
          LET once  == Instantiate(Mgr("none"), s, T)
              twice == Instantiate(once, s, T)
          IN  /\ once.drv[s].begins = 1
              /\ twice.drv[s].begins = 1

\* a decode asked for Relay on the UART slot: the Disabled driver built in
\* its place was begun once and then given the settings
C24_Witness ==
    /\ DecodedChannels
    /\ AsksFor(0, OutputType_Relay)
    /\ Driver(0).type = OutputType_Disabled
    /\ Driver(0).begins = 1
    /\ 0 \in last.applied
    /\ last.early = {}


\* a save of the document now in memory has been attempted by this call
SaveAttempted ==
    /\ last.saves > 0
    /\ last.saved[Len(last.saved)] = ConfigData

\* C25: a Render tick that starts with the dirty flag set clears the flag and
\* makes exactly one save, of ConfigData, before the first driver's Render;
\* a tick that starts with the flag clear makes no save. With ticks that keep
\* coming, a set flag always leads to a save attempt of the document then in
\* memory, for as long as the manager is not destroyed first.
C25_TickSavesFirst ==
    /\ [][ last'.op = "Render" =>
               /\ ConfigSaveNeeded = TRUE =>
                      /\ ConfigSaveNeeded' = FALSE
                      /\ last'.saves = 1
                      /\ last'.saved = << ConfigData' >>
                      /\ last'.rendered # << >> => last'.savesAtRender = 1
               /\ ConfigSaveNeeded = FALSE =>
                      /\ ConfigSaveNeeded' = FALSE
                      /\ last'.saves = 0
          ]_vars
    /\ (ConfigSaveNeeded = TRUE) ~> (SaveAttempted \/ ~ HasBeenInitialized)

\* a tick that found the flag set, saved, and then rendered both drivers
C25_Witness ==
    /\ last.op = "Render"
    /\ last.saves = 1
    /\ SaveAttempted
    /\ last.savesAtRender = 1
    /\ ~ last.paused
    /\ Len(last.rendered) = OutputChannelId_End
    /\ Driver(1).type = OutputType_Relay

\* the call was a SetConfig on a document without the manager section
ForeignDocument(l) ==
    l.op = "SetConfig" /\ ~ containsKey(l.in, OM_SECTION_NAME)

\* C26: SetConfig on a document that has no top-level manager section
\* returns false and changes nothing: no driver is destroyed or constructed,
\* ConfigData, the partition of the buffer, the dirty flag and the stored
\* file stay as they were, nothing is decoded, regenerated or saved.
C26_ForeignDocumentIgnored ==
    [][ ForeignDocument(last') =>
           /\ last'.Response = FALSE
           /\ pOutputChannelDrivers' = pOutputChannelDrivers
           /\ last'.live = [i \in 1 .. OutputChannelId_End |-> 1]
           /\ last'.maxLive = 1
           /\ ConfigData' = ConfigData
           /\ UsedBufferSize' = UsedBufferSize
           /\ ConfigSaveNeeded' = ConfigSaveNeeded
           /\ file' = file
           /\ ~ last'.decoded
           /\ ~ last'.regen
           /\ last'.saves = 0
           /\ last'.notified = << >>
           /\ last'.applied = {}
      ]_vars

\* such a call on a running configuration whose save is still pending
C26_Witness ==
    /\ ForeignDocument(last)
    /\ last.Response = FALSE
    /\ ConfigSaveNeeded = TRUE
    /\ Driver(0).type = OutputType_WS2811
    /\ Driver(1).type = OutputType_Relay
    /\ UsedBufferSize > 0

\* the call was a Begin
BeginCalled(l) == l.op \in {"Begin", "BeginAgain"}

\* C27: Begin takes effect at most once. A call made when the manager has
\* already begun touches no slot driver, loads nothing and saves nothing:
\* the running drivers, ConfigData, the dirty flag, the partition and the
\* file are what they were, so a running configuration is never reset.
C27_BeginOnlyOnce ==
    [][ (HasBeenInitialized /\ BeginCalled(last')) =>
           /\ HasBeenInitialized'
           /\ pOutputChannelDrivers' = pOutputChannelDrivers
           /\ last'.live = [i \in 1 .. OutputChannelId_End |-> 1]
           /\ last'.maxLive = 1
           /\ ConfigData' = ConfigData
           /\ ConfigSaveNeeded' = ConfigSaveNeeded
           /\ UsedBufferSize' = UsedBufferSize
           /\ file' = file
           /\ ~ last'.decoded
           /\ ~ last'.regen
           /\ last'.saves = 0
           /\ last'.notified = << >>
      ]_vars

\* a repeated Begin on a running configuration with a save pending
C27_Witness ==
    /\ last.op = "BeginAgain"
    /\ HasBeenInitialized
    /\ Driver(0).type = OutputType_WS2811
    /\ Driver(1).type = OutputType_Relay
    /\ ConfigSaveNeeded = TRUE

\* C28: a Render tick that finds IsOutputPaused true calls no driver's
\* Render, yet clears a set dirty flag and makes the pending save; a tick
\* that finds it false calls Render on every slot's driver exactly once, in
\* slot order, and touches no driver otherwise.
C28_PauseSkipsDriversOnly ==
    [][ last'.op = "Render" =>
           /\ last'.rendered =
                  IF last'.paused
                  THEN << >>
                  ELSE [i \in 1 .. OutputChannelId_End |-> i - 1]
           /\ ConfigSaveNeeded' = FALSE
           /\ last'.saves = IF ConfigSaveNeeded THEN 1 ELSE 0
           /\ last'.saved = IF ConfigSaveNeeded THEN << ConfigData >> ELSE << >>
           /\ pOutputChannelDrivers' = pOutputChannelDrivers
      ]_vars

\* a paused tick that made the pending save and rendered nothing
C28_Witness ==
    /\ last.op = "Render"
    /\ last.paused
    /\ last.rendered = << >>
    /\ last.saves = 1
    /\ ConfigSaveNeeded = FALSE
    /\ Driver(0).type = OutputType_WS2811

\* a tick that was not paused and rendered slot 0, then slot 1
C28_WitnessRunning ==
    /\ last.op = "Render"
    /\ ~ last.paused
    /\ last.rendered = << 0, 1 >>
    /\ last.saves = 0
    /\ Driver(1).type = OutputType_Relay

\* the most recent save or load of the manager succeeded
LastTransferSucceeded == last.io = "succeeded"

\* C29: between operations, whenever ConfigSaveNeeded is false and the most
\* recent save or load succeeded, the stored document equals ConfigData; on
\* a manager that has begun the two differ only while the flag is set or
\* when the most recent save failed.
C29_PersistedMatchesMemory ==
    /\ (ConfigSaveNeeded = FALSE /\ LastTransferSucceeded) => file = ConfigData
    /\ (HasBeenInitialized /\ file # ConfigData) =>
           (ConfigSaveNeeded = TRUE \/ last.io = "save failed")

\* a tick has written the document of a running configuration; and the two
\* ways of differing
C29_Witness ==
    /\ last.op = "Render"
    /\ LastTransferSucceeded
    /\ last.saves = 1
    /\ ConfigSaveNeeded = FALSE
    /\ file = ConfigData
    /\ Driver(0).type = OutputType_WS2811

C29_WitnessLoaded ==
    /\ last.op = "LoadConfig"
    /\ LastTransferSucceeded
    /\ last.decoded
    /\ ConfigSaveNeeded = FALSE
    /\ file = ConfigData
    /\ Driver(1).type = OutputType_Relay

C29_WitnessPending ==
    /\ ConfigSaveNeeded = TRUE
    /\ LastTransferSucceeded
    /\ file # ConfigData

C29_WitnessFailedSave ==
    /\ ConfigSaveNeeded = FALSE
    /\ last.io = "save failed"
    /\ file # ConfigData
    /\ HasBeenInitialized

=============================================================================
